---- MODULE Spec2Model ----
(***************************************************************************)
(* Model of the LevelUp AI microservice: DietController.adjustCalories,    *)
(* DietService (generateDiet, getDiet, regenerateDiet, adjustCalories,     *)
(* calculateTotalMacros) and WorkoutService (generateWorkout, getWorkout,  *)
(* regenerateWorkout).  The AI providers, the configuration and the        *)
(* Supabase store are external collaborators: every call to them has a     *)
(* nondeterministic outcome (a value, a lookup miss, a thrown error).      *)
(***************************************************************************)
EXTENDS Integers, Sequences, FiniteSets, TLC

(***************************************************************************)
(* JavaScript values.  Every value a field may hold is tagged with its     *)
(* type, so that undefined, 0, "", [] , NaN and Infinity stay distinct.    *)
(***************************************************************************)
undefined == [t |-> "undefined"]
null == [t |-> "null"]
NaN == [t |-> "NaN"]
Infinity == [t |-> "Infinity"]
Num(n) == [t |-> "number", v |-> n]
Str(s) == [t |-> "string", v |-> s]
Arr(a) == [t |-> "array", v |-> a]

\* JavaScript truthiness, as used by `a || b`, `a ? b : c` and `!a`.
Truthy(x) ==
  CASE x.t = "undefined" -> FALSE
    [] x.t = "null" -> FALSE
    [] x.t = "NaN" -> FALSE
    [] x.t = "Infinity" -> TRUE
    [] x.t = "number" -> x.v # 0
    [] x.t = "string" -> x.v # ""
    [] OTHER -> TRUE

\* a || b
Or(a, b) == IF Truthy(a) THEN a ELSE b

\* a + b on numbers (the accumulation of calculateTotalMacros).
JsAdd(a, b) ==
  CASE a.t = "number" /\ b.t = "number" -> Num(a.v + b.v)
    [] a.t = "Infinity" /\ b.t \in {"number", "Infinity"} -> Infinity
    [] b.t = "Infinity" /\ a.t = "number" -> Infinity
    [] OTHER -> NaN

(***************************************************************************)
(* IEEE-754 binary64 arithmetic on the operands the rescaling uses.  A     *)
(* positive double is a pair <<limbs, s>>: the integer whose digits in     *)
(* base 2^13 are limbs (least significant first), times 2^s.  Operands     *)
(* are positive integers below 2^13.                                       *)
(***************************************************************************)
Base == 2^13

RECURSIVE Exp2(_, _)
\* floor(log2(a / b)) for positive integers a, b.
Exp2(a, b) ==
  IF a >= 2 * b THEN 1 + Exp2(a, 2 * b)
  ELSE IF a < b THEN Exp2(2 * a, b) - 1
  ELSE 0

RECURSIVE BitLength(_)
BitLength(n) == IF n = 0 THEN 0 ELSE 1 + BitLength(n \div 2)

\* Bits per limb, and the 53 significant bits of a double: the leading bit
\* and four limbs.
LimbBits == BitLength(Base) - 1
Precision == 4 * LimbBits + 1

RECURSIVE AddLimbs(_, _)
\* limbs + c, exactly.
AddLimbs(limbs, c) ==
  IF c = 0 THEN limbs
  ELSE IF limbs = <<>> THEN <<c>>
  ELSE LET t == Head(limbs) + c
       IN  <<t % Base>> \o AddLimbs(Tail(limbs), t \div Base)

RECURSIVE MulLimbs(_, _, _)
\* limbs * x + carry, exactly.
MulLimbs(limbs, x, carry) ==
  IF limbs = <<>> THEN (IF carry = 0 THEN <<>> ELSE <<carry>>)
  ELSE LET t == Head(limbs) * x + carry
       IN  <<t % Base>> \o MulLimbs(Tail(limbs), x, t \div Base)

\* The double a / b for positive integers a, b: 1 + 52 quotient bits,
\* rounded to nearest, ties to even.
DoubleDiv(a, b) ==
  LET e == Exp2(a, b)
      num == IF e < 0 THEN a * 2^(0 - e) ELSE a
      den == IF e > 0 THEN b * 2^e ELSE b
      t1 == (num - den) * Base
      t2 == (t1 % den) * Base
      t3 == (t2 % den) * Base
      t4 == (t3 % den) * Base
      rem == t4 % den
      up == 2 * rem > den \/ (2 * rem = den /\ (t4 \div den) % 2 = 1)
  IN  << AddLimbs(<<t4 \div den, t3 \div den, t2 \div den, t1 \div den, 1>>,
                  IF up THEN 1 ELSE 0),
         e - (Precision - 1) >>

\* Round an exact value to 53 significant bits, ties to even.
RoundToDouble(d) ==
  LET limbs == d[1]
      n == Len(limbs)
      k == LimbBits * (n - 1) + BitLength(limbs[n]) - Precision
  IN  IF k <= 0 THEN d
      ELSE LET low == limbs[1] % 2^k
               roundBit == (limbs[1] \div 2^(k - 1)) % 2
               sticky == limbs[1] % 2^(k - 1) # 0
               lsb == IF k < LimbBits THEN (limbs[1] \div 2^k) % 2
                      ELSE limbs[2] % 2
               up == roundBit = 1 /\ (sticky \/ lsb = 1)
               cleared == [limbs EXCEPT ![1] = limbs[1] - low]
           IN  <<AddLimbs(cleared, IF up THEN 2^k ELSE 0), d[2]>>

\* The double x * d for a positive integer x and a positive double d.
DoubleMul(x, d) == RoundToDouble(<<MulLimbs(d[1], x, 0), d[2]>>)

\* Bit pos (from 0) of the integer limbs.
BitAt(limbs, pos) ==
  LET i == (pos \div LimbBits) + 1
  IN  IF pos >= 0 /\ i <= Len(limbs)
      THEN (limbs[i] \div 2^(pos % LimbBits)) % 2 ELSE 0

RECURSIVE ShiftRightFrom(_, _, _)
\* floor(limbs / 2^sh), summed from limb i upwards.
ShiftRightFrom(limbs, sh, i) ==
  IF i > Len(limbs) THEN 0
  ELSE LET q == (sh \div LimbBits) + 1
           o == sh % LimbBits
       IN  (IF i < q THEN 0
            ELSE IF i = q THEN limbs[i] \div 2^o
            ELSE limbs[i] * 2^(LimbBits * (i - q) - o))
           + ShiftRightFrom(limbs, sh, i + 1)

\* Math.round of a positive double below 2^31: nearest integer, ties up.
MathRound(d) ==
  LET sh == 0 - d[2]
  IN  ShiftRightFrom(d[1], sh, 1) + BitAt(d[1], sh - 1)

\* newCalories / existingPlan.totalCalories (line 284), both numbers.
ScalingFactor(newCalories, totalCalories) ==
  IF totalCalories.v = 0
  THEN (IF newCalories.v = 0 THEN NaN ELSE Infinity)
  ELSE IF newCalories.v = 0 THEN Num(0)
  ELSE [t |-> "double", v |-> DoubleDiv(newCalories.v, totalCalories.v)]

\* Math.round(x * scalingFactor) for a field x of the stored plan.
RoundScaled(x, factor) ==
  CASE x.t = "undefined" \/ x.t = "NaN" \/ factor.t = "NaN" -> NaN
    [] x.t = "Infinity" ->
         IF factor.t = "number" THEN NaN ELSE Infinity
    [] factor.t = "Infinity" -> IF x.v = 0 THEN NaN ELSE Infinity
    [] factor.t = "number" -> Num(0)
    [] OTHER ->
         IF x.v = 0 THEN Num(0) ELSE Num(MathRound(DoubleMul(x.v, factor.v)))

(***************************************************************************)
(* parseInt(string, 10) and isNaN.  A string is the sequence of its        *)
(* characters.                                                             *)
(***************************************************************************)
Digits == <<"0", "1", "2", "3", "4", "5", "6", "7", "8", "9">>
WhiteSpace == {" "}
IsDigit(c) == \E i \in 1..Len(Digits) : Digits[i] = c
DigitValue(c) == (CHOOSE i \in 1..Len(Digits) : Digits[i] = c) - 1

RECURSIVE StripLeadingWhiteSpace(_)
StripLeadingWhiteSpace(s) ==
  IF s # <<>> /\ Head(s) \in WhiteSpace
  THEN StripLeadingWhiteSpace(Tail(s)) ELSE s

RECURSIVE DigitPrefix(_)
\* The longest prefix of s made of radix-10 digits.
DigitPrefix(s) ==
  IF s # <<>> /\ IsDigit(Head(s))
  THEN <<Head(s)>> \o DigitPrefix(Tail(s)) ELSE <<>>

RECURSIVE DigitsToNat(_, _)
DigitsToNat(s, acc) ==
  IF s = <<>> THEN acc
  ELSE DigitsToNat(Tail(s), 10 * acc + DigitValue(Head(s)))

parseInt(string) ==
  LET trimmed == StripLeadingWhiteSpace(string)
      signed == trimmed # <<>> /\ Head(trimmed) \in {"+", "-"}
      sign == IF trimmed # <<>> /\ Head(trimmed) = "-" THEN 0 - 1 ELSE 1
      body == IF signed THEN Tail(trimmed) ELSE trimmed
      digits == DigitPrefix(body)
  IN  IF digits = <<>> THEN NaN ELSE Num(sign * DigitsToNat(digits, 0))

isNaN(x) == x.t = "NaN"

(***************************************************************************)
(* The response envelope (shared/utils/api-response) and the outcome of    *)
(* running a handler body: it returns a value or throws an error.          *)
(***************************************************************************)
createSuccessResponse(data, message) ==
  [success |-> TRUE, data |-> data, error |-> undefined, message |-> message]

createErrorResponse(error, message) ==
  [success |-> FALSE, data |-> undefined, error |-> error, message |-> message]

Return(value) == [kind |-> "return", value |-> value]
Throw(message) == [kind |-> "throw", message |-> message]

\* What one execution of a handler did: the external calls it made, in
\* order, the request it handed to the AI backend, the plan it handed to
\* the Store, and how it ended.
Exec(calls, genReq, saved, result) ==
  [calls |-> calls, genReq |-> genReq, saved |-> saved, result |-> result]

\* A handler without its catch clause.
Rethrow(body, summary) == body

\* try { body } catch (error) { return createErrorResponse(error.message,
\* summary) }
TryCatch(body, summary) ==
  IF body.result.kind = "throw"
  THEN [body EXCEPT !.result =
          Return(createErrorResponse(body.result.message, Str(summary)))]
  ELSE body

(***************************************************************************)
(* Outcomes of the external collaborators.                                 *)
(***************************************************************************)
StoreError == Str("store failure")
BackendError == Str("backend failure")
Hit(plan) == [kind |-> "hit", plan |-> plan]
Miss == [kind |-> "miss"]
Fail(message) == [kind |-> "throw", message |-> message]
Ok(value) == [kind |-> "ok", value |-> value]

\* The plan the Store returns from a save: the plan it was given, with an
\* id assigned when it had none.
SavedPlan(plan, newId) ==
  IF plan.id = undefined THEN [plan EXCEPT !.id = newId] ELSE plan

SaveOutcomes == {Ok(Str("new-id")), Fail(StoreError)}

\* A guard that never fires.
NotFoundNever(existingPlan) == FALSE

\* if (!existingPlan): the lookup produced no plan.
NotFound(existingPlan) == ~Truthy(existingPlan)

(***************************************************************************)
(* Diet plans: the values the Store may hold.                              *)
(***************************************************************************)
MaxMeals == 2

Optional == <<undefined, Num(0), Num(2)>>

\* Items whose optional protein / carbs / fat run through absent, 0 and a
\* positive value.
Item(k) ==
  [name |-> "Oatmeal", quantity |-> "1 cup", calories |-> Num(50),
   protein |-> Optional[k], carbs |-> Optional[(k % 3) + 1],
   fat |-> Optional[((k + 1) % 3) + 1]]

MealShapes ==
  { <<"Breakfast", <<Item(1)>>, Num(50), undefined>>,
    <<"Lunch", <<Item(2)>>, Num(450), Num(0)>>,
    <<"Dinner", <<Item(3), Item(1)>>, Num(0), Num(2)>>,
    <<"Snack", <<>>, Num(50), Num(2)>> }

Meals ==
  { [name |-> m[1], items |-> m[2], totalCalories |-> m[3],
     macros |-> [protein |-> Num(2), carbs |-> Num(3), fat |-> Num(0),
                 fiber |-> m[4]]] : m \in MealShapes }

MealLists == UNION { [1..n -> Meals] : n \in 0..MaxMeals }

RECURSIVE Reduce(_, _)
\* meals.reduce((total, meal) => ..., total)
Reduce(meals, total) ==
  IF meals = <<>> THEN total
  ELSE LET meal == Head(meals)
       IN  Reduce(Tail(meals),
                  [protein |-> JsAdd(total.protein, meal.macros.protein),
                   carbs |-> JsAdd(total.carbs, meal.macros.carbs),
                   fat |-> JsAdd(total.fat, meal.macros.fat),
                   fiber |-> JsAdd(total.fiber, Or(meal.macros.fiber, Num(0)))])

calculateTotalMacros(meals) ==
  Reduce(meals, [protein |-> Num(0), carbs |-> Num(0), fat |-> Num(0),
                 fiber |-> Num(0)])

Users == {"u1", "u2"}
StoredTotals == {0, 1000, 5000}

DietPlan(id, userId, goal, totalCalories, meals, restrictions) ==
  [t |-> "object", id |-> id, userId |-> Str(userId),
   name |-> Str("Nutrition Plan"), description |-> Str("A plan"),
   goal |-> Str(goal), totalCalories |-> Num(totalCalories),
   targetMacros |-> calculateTotalMacros(meals), meals |-> meals,
   restrictions |-> Arr(restrictions)]

\* Stored plans that differ in their meals and total, and stored plans that
\* differ in owner, goal and restrictions.
PlanIds == {"d1"}

DietPlans ==
  { DietPlan(Str(id), "u1", "bulk", c, ms, <<>>) :
      id \in PlanIds, c \in StoredTotals, ms \in MealLists }
  \cup
  { DietPlan(Str(id), u, "bulk", 2500, <<>>, r) :
      id \in PlanIds, u \in Users, r \in {<<>>, <<"vegan">>} }

\* What getDietPlan(id) may produce.
DietLookups ==
  { Hit(plan) : plan \in DietPlans } \cup {Miss, Fail(StoreError)}

Finds(lookup, id) == lookup.kind = "hit" => lookup.plan.id = Str(id)

\* const existingPlan = await this.supabaseService.getDietPlan(planId)
Existing(lookup) == IF lookup.kind = "hit" THEN lookup.plan ELSE null

(***************************************************************************)
(* DietService.adjustCalories                                              *)
(***************************************************************************)
ScaleItem(item, scalingFactor) ==
  [item EXCEPT
     !.calories = RoundScaled(item.calories, scalingFactor),
     !.protein = IF Truthy(item.protein)
                 THEN RoundScaled(item.protein, scalingFactor) ELSE undefined,
     !.carbs = IF Truthy(item.carbs)
               THEN RoundScaled(item.carbs, scalingFactor) ELSE undefined,
     !.fat = IF Truthy(item.fat)
             THEN RoundScaled(item.fat, scalingFactor) ELSE undefined]

ScaleMeal(meal, scalingFactor) ==
  [meal EXCEPT
     !.totalCalories = RoundScaled(meal.totalCalories, scalingFactor),
     !.items = [i \in 1..Len(meal.items) |->
                  ScaleItem(meal.items[i], scalingFactor)],
     !.macros =
        [protein |-> RoundScaled(meal.macros.protein, scalingFactor),
         carbs |-> RoundScaled(meal.macros.carbs, scalingFactor),
         fat |-> RoundScaled(meal.macros.fat, scalingFactor),
         fiber |-> IF Truthy(meal.macros.fiber)
                   THEN RoundScaled(meal.macros.fiber, scalingFactor)
                   ELSE undefined]]

AdjustedMeals(existingPlan, newCalories) ==
  LET scalingFactor == ScalingFactor(newCalories, existingPlan.totalCalories)
  IN  [i \in 1..Len(existingPlan.meals) |->
         ScaleMeal(existingPlan.meals[i], scalingFactor)]

\* A rescaling that scales the stored aggregate instead of summing the
\* scaled meals.
AdjustedPlanScalingAggregate(existingPlan, newCalories) ==
  LET scalingFactor == ScalingFactor(newCalories, existingPlan.totalCalories)
      old == existingPlan.targetMacros
  IN  [existingPlan EXCEPT
         !.totalCalories = newCalories,
         !.meals = AdjustedMeals(existingPlan, newCalories),
         !.targetMacros =
            [protein |-> RoundScaled(old.protein, scalingFactor),
             carbs |-> RoundScaled(old.carbs, scalingFactor),
             fat |-> RoundScaled(old.fat, scalingFactor),
             fiber |-> RoundScaled(old.fiber, scalingFactor)]]

\* const adjustedPlan = {...existingPlan, totalCalories, meals, targetMacros}
AdjustedPlan(existingPlan, newCalories) ==
  LET adjustedMeals == AdjustedMeals(existingPlan, newCalories)
  IN  [existingPlan EXCEPT
         !.totalCalories = newCalories,
         !.meals = adjustedMeals,
         !.targetMacros = calculateTotalMacros(adjustedMeals)]

adjustCaloriesBody(planId, newCalories, lookup, save) ==
  IF lookup.kind = "throw"
  THEN Exec(<<"getDietPlan">>, null, null, Throw(lookup.message))
  ELSE
    LET existingPlan == Existing(lookup)
    IN  IF NotFound(existingPlan)
        THEN Exec(<<"getDietPlan">>, null, null,
                  Return(createErrorResponse(
                    Str("Diet plan not found"),
                    Str("Cannot adjust calories for non-existent plan"))))
        ELSE IF existingPlan = null
        THEN Exec(<<"getDietPlan">>, null, null,
                  Throw(Str("Cannot read properties of null")))
        ELSE
          LET adjustedPlan == AdjustedPlan(existingPlan, newCalories)
          IN  Exec(<<"getDietPlan", "saveDietPlan">>, null, adjustedPlan,
                   IF save.kind = "throw" THEN Throw(save.message)
                   ELSE Return(createSuccessResponse(
                          SavedPlan(adjustedPlan, save.value),
                          Str("Diet plan calories adjusted successfully"))))

adjustCalories(planId, newCalories, lookup, save) ==
  TryCatch(adjustCaloriesBody(planId, newCalories, lookup, save),
           "Failed to adjust diet calories")

(***************************************************************************)
(* DietController.adjustCalories                                           *)
(***************************************************************************)
MinCalories == 1000
MaxCalories == 5000

DietController_adjustCalories(id, calories, lookup, save) ==
  LET newCalories == parseInt(calories)
  IN  IF isNaN(newCalories) \/ newCalories.v < MinCalories
         \/ newCalories.v > MaxCalories
      THEN Exec(<<>>, null, null,
                Return([success |-> FALSE, data |-> undefined,
                        error |-> Str("Invalid calories value. Must be between 1000 and 5000."),
                        message |-> undefined]))
      ELSE adjustCalories(id, newCalories, lookup, save)

\* The :calories path parameter: an optional prefix, digits, and an
\* optional trailing character.
CaloriesParams ==
  { p \o d \o x :
      p \in {<<>>, <<"-">>, <<" ">>},
      d \in {<<>>, <<"5", "0", "0">>, <<"1", "0", "0", "0">>,
              <<"1", "1", "5", "0">>, <<"5", "0", "0", "0">>,
              <<"5", "0", "0", "1">>},
      x \in {<<>>, <<"x">>} }

(***************************************************************************)
(* DietService.generateDiet, getDiet, regenerateDiet                       *)
(***************************************************************************)
\* this.configService.get('ai.defaultProvider')
Configs == {undefined, Str("gemini"), Str("openai")}

DietDraft ==
  [name |-> Str("Nutrition Plan"), description |-> Str("A plan"),
   meals |-> <<CHOOSE m \in Meals : m.name = "Snack",
               CHOOSE m \in Meals : m.name = "Lunch">>]

DietBackendOutcomes == {Ok(DietDraft), Fail(BackendError)}

\* The request fields that only feed the prompt.
DietExtras ==
  { [mealsPerDay |-> undefined, targetProtein |-> undefined,
     preferredFoods |-> undefined, avoidFoods |-> undefined,
     preferences |-> undefined],
    [mealsPerDay |-> Num(3), targetProtein |-> Num(120),
     preferredFoods |-> Arr(<<"rice">>), avoidFoods |-> Arr(<<"nuts">>),
     preferences |-> Str("quick meals")] }

GenerateDietDto(userId, calories, goal, restrictions, extras) ==
  [userId |-> userId, calories |-> calories, goal |-> goal,
   restrictions |-> restrictions, mealsPerDay |-> extras.mealsPerDay,
   targetProtein |-> extras.targetProtein,
   preferredFoods |-> extras.preferredFoods,
   avoidFoods |-> extras.avoidFoods, preferences |-> extras.preferences]

\* Bodies accepted by POST /diet.
GenerateDietDtos ==
  { GenerateDietDto(Str(u), Num(2000), Str("cut"), r, x) :
      u \in Users, r \in {undefined, Arr(<<>>), Arr(<<"vegan">>)},
      x \in DietExtras }

\* Bodies of POST /diet/:id/regenerate: every field may be absent.
DietModifications ==
  { GenerateDietDto(u, c, g, r, x) :
      u \in {undefined, Str("u2")},
      c \in {undefined, Num(0), Num(1800)},
      g \in {undefined, Str(""), Str("cut")},
      r \in {undefined, Arr(<<>>), Arr(<<"vegan">>)},
      x \in DietExtras }

generateDietBody(dto, config, ai, save) ==
  LET provider == Or(config, Str("openai"))
      call == IF provider = Str("gemini")
              THEN "geminiProvider.generateDietPlan"
              ELSE "openAiProvider.generateDietPlan"
  IN  IF ai.kind = "throw"
      THEN Exec(<<call>>, dto, null, Throw(ai.message))
      ELSE
        LET aiResponse == ai.value
            totalMacros == calculateTotalMacros(aiResponse.meals)
            dietPlan ==
              [t |-> "object", id |-> undefined, userId |-> dto.userId,
               name |-> aiResponse.name,
               description |-> aiResponse.description,
               goal |-> dto.goal, totalCalories |-> dto.calories,
               targetMacros |-> totalMacros, meals |-> aiResponse.meals,
               restrictions |-> Or(dto.restrictions, Arr(<<>>))]
        IN  Exec(<<call, "saveDietPlan">>, dto, dietPlan,
                 IF save.kind = "throw" THEN Throw(save.message)
                 ELSE Return(createSuccessResponse(
                        SavedPlan(dietPlan, save.value),
                        Str("Diet plan generated successfully"))))

generateDiet(dto, config, ai, save) ==
  TryCatch(generateDietBody(dto, config, ai, save),
           "Failed to generate diet plan")

getDietBody(planId, lookup) ==
  IF lookup.kind = "throw"
  THEN Exec(<<"getDietPlan">>, null, null, Throw(lookup.message))
  ELSE
    LET dietPlan == Existing(lookup)
    IN  IF NotFound(dietPlan)
        THEN Exec(<<"getDietPlan">>, null, null,
                  Return(createErrorResponse(
                    Str("Diet plan not found"),
                    Str("The requested diet plan does not exist"))))
        ELSE Exec(<<"getDietPlan">>, null, null,
                  Return(createSuccessResponse(dietPlan, undefined)))

getDiet(planId, lookup) ==
  TryCatch(getDietBody(planId, lookup), "Failed to fetch diet plan")

\* A merge that lets the request body name the owner.
MergeDietTrustingBody(existingPlan, modifications) ==
  [userId |-> Or(modifications.userId, existingPlan.userId),
   calories |-> Or(modifications.calories, existingPlan.totalCalories),
   goal |-> Or(modifications.goal, existingPlan.goal),
   restrictions |-> Or(modifications.restrictions, existingPlan.restrictions),
   mealsPerDay |-> modifications.mealsPerDay,
   targetProtein |-> modifications.targetProtein,
   preferredFoods |-> modifications.preferredFoods,
   avoidFoods |-> modifications.avoidFoods,
   preferences |-> modifications.preferences]

\* const updatedDto: GenerateDietDto = {...}
MergeDiet(existingPlan, modifications) ==
  [userId |-> existingPlan.userId,
   calories |-> Or(modifications.calories, existingPlan.totalCalories),
   goal |-> Or(modifications.goal, existingPlan.goal),
   restrictions |-> Or(modifications.restrictions, existingPlan.restrictions),
   mealsPerDay |-> modifications.mealsPerDay,
   targetProtein |-> modifications.targetProtein,
   preferredFoods |-> modifications.preferredFoods,
   avoidFoods |-> modifications.avoidFoods,
   preferences |-> modifications.preferences]

regenerateDietBody(planId, modifications, lookup, config, ai, save) ==
  IF lookup.kind = "throw"
  THEN Exec(<<"getDietPlan">>, null, null, Throw(lookup.message))
  ELSE
    LET existingPlan == Existing(lookup)
    IN  IF NotFound(existingPlan)
        THEN Exec(<<"getDietPlan">>, null, null,
                  Return(createErrorResponse(
                    Str("Diet plan not found"),
                    Str("Cannot regenerate non-existent plan"))))
        ELSE IF existingPlan = null
        THEN Exec(<<"getDietPlan">>, null, null,
                  Throw(Str("Cannot read properties of null")))
        ELSE
          LET updatedDto == MergeDiet(existingPlan, modifications)
              inner == generateDiet(updatedDto, config, ai, save)
          IN  [inner EXCEPT !.calls = <<"getDietPlan">> \o inner.calls]

regenerateDiet(planId, modifications, lookup, config, ai, save) ==
  TryCatch(regenerateDietBody(planId, modifications, lookup, config, ai, save),
           "Failed to regenerate diet plan")

(***************************************************************************)
(* WorkoutService.generateWorkout, getWorkout, regenerateWorkout           *)
(***************************************************************************)
WorkoutIds == {"w1"}

WorkoutPlans ==
  { [t |-> "object", id |-> Str(id), userId |-> Str(u),
     name |-> Str("Strength Plan"), description |-> Str("A plan"),
     difficulty |-> Str(d), goal |-> Str("bulk"), daysPerWeek |-> Num(3),
     estimatedDuration |-> Num(45), exercises |-> Arr(<<"squat">>)] :
      id \in WorkoutIds, u \in Users, d \in {"easy", "hard"} }

\* What getWorkoutPlan(id) may produce.
WorkoutLookups ==
  { Hit(plan) : plan \in WorkoutPlans } \cup {Miss, Fail(StoreError)}

WorkoutDraft ==
  [name |-> Str("Strength Plan"), description |-> Str("A plan"),
   exercises |-> Arr(<<"squat", "bench press">>)]

WorkoutBackendOutcomes == {Ok(WorkoutDraft), Fail(BackendError)}

WorkoutExtras ==
  { [equipment |-> undefined, targetMuscles |-> undefined,
     preferences |-> undefined],
    [equipment |-> Arr(<<"barbell">>), targetMuscles |-> Arr(<<"legs">>),
     preferences |-> Str("short sessions")] }

GenerateWorkoutDto(userId, goal, difficulty, daysPerWeek, duration, extras) ==
  [userId |-> userId, goal |-> goal, difficulty |-> difficulty,
   daysPerWeek |-> daysPerWeek, duration |-> duration,
   equipment |-> extras.equipment, targetMuscles |-> extras.targetMuscles,
   preferences |-> extras.preferences]

\* Bodies accepted by POST /workout.
GenerateWorkoutDtos ==
  { GenerateWorkoutDto(Str(u), Str("cut"), Str("hard"), Num(d), Num(30), x) :
      u \in Users, d \in {3, 5}, x \in WorkoutExtras }

\* Bodies of POST /workout/:id/regenerate: every field may be absent.
WorkoutModifications ==
  { GenerateWorkoutDto(u, g, d, n, m, x) :
      u \in {undefined, Str("u2")},
      g \in {undefined, Str(""), Str("cut")},
      d \in {undefined, Str(""), Str("hard")},
      n \in {undefined, Num(0), Num(5)},
      m \in {undefined, Num(0), Num(30)},
      x \in WorkoutExtras }

generateWorkoutBody(dto, config, ai, save) ==
  LET provider == Or(config, Str("openai"))
      call == IF provider = Str("gemini")
              THEN "geminiProvider.generateWorkoutPlan"
              ELSE "openAiProvider.generateWorkoutPlan"
  IN  IF ai.kind = "throw"
      THEN Exec(<<call>>, dto, null, Throw(ai.message))
      ELSE
        LET aiResponse == ai.value
            workoutPlan ==
              [t |-> "object", id |-> undefined, userId |-> dto.userId,
               name |-> aiResponse.name,
               description |-> aiResponse.description,
               difficulty |-> dto.difficulty, goal |-> dto.goal,
               daysPerWeek |-> dto.daysPerWeek,
               estimatedDuration |-> dto.duration,
               exercises |-> aiResponse.exercises]
        IN  Exec(<<call, "saveWorkoutPlan">>, dto, workoutPlan,
                 IF save.kind = "throw" THEN Throw(save.message)
                 ELSE Return(createSuccessResponse(
                        SavedPlan(workoutPlan, save.value),
                        Str("Workout plan generated successfully"))))

generateWorkout(dto, config, ai, save) ==
  TryCatch(generateWorkoutBody(dto, config, ai, save),
           "Failed to generate workout plan")

getWorkoutBody(planId, lookup) ==
  IF lookup.kind = "throw"
  THEN Exec(<<"getWorkoutPlan">>, null, null, Throw(lookup.message))
  ELSE
    LET workoutPlan == Existing(lookup)
    IN  IF NotFound(workoutPlan)
        THEN Exec(<<"getWorkoutPlan">>, null, null,
                  Return(createErrorResponse(
                    Str("Workout plan not found"),
                    Str("The requested workout plan does not exist"))))
        ELSE Exec(<<"getWorkoutPlan">>, null, null,
                  Return(createSuccessResponse(workoutPlan, undefined)))

getWorkout(planId, lookup) ==
  TryCatch(getWorkoutBody(planId, lookup), "Failed to fetch workout plan")

\* const updatedDto: GenerateWorkoutDto = {...}
MergeWorkout(existingPlan, modifications) ==
  [userId |-> existingPlan.userId,
   goal |-> Or(modifications.goal, existingPlan.goal),
   difficulty |-> Or(modifications.difficulty, existingPlan.difficulty),
   daysPerWeek |-> Or(modifications.daysPerWeek, existingPlan.daysPerWeek),
   duration |-> Or(modifications.duration, existingPlan.estimatedDuration),
   equipment |-> modifications.equipment,
   targetMuscles |-> modifications.targetMuscles,
   preferences |-> modifications.preferences]

regenerateWorkoutBody(planId, modifications, lookup, config, ai, save) ==
  IF lookup.kind = "throw"
  THEN Exec(<<"getWorkoutPlan">>, null, null, Throw(lookup.message))
  ELSE
    LET existingPlan == Existing(lookup)
    IN  IF NotFound(existingPlan)
        THEN Exec(<<"getWorkoutPlan">>, null, null,
                  Return(createErrorResponse(
                    Str("Workout plan not found"),
                    Str("Cannot regenerate non-existent plan"))))
        ELSE IF existingPlan = null
        THEN Exec(<<"getWorkoutPlan">>, null, null,
                  Throw(Str("Cannot read properties of null")))
        ELSE
          LET updatedDto == MergeWorkout(existingPlan, modifications)
              inner == generateWorkout(updatedDto, config, ai, save)
          IN  [inner EXCEPT !.calls = <<"getWorkoutPlan">> \o inner.calls]

regenerateWorkout(planId, modifications, lookup, config, ai, save) ==
  TryCatch(
    regenerateWorkoutBody(planId, modifications, lookup, config, ai, save),
    "Failed to regenerate workout plan")

(***************************************************************************)
(* State: the request being served and what serving it did.                *)
(***************************************************************************)
\* op:     the operation serving the current request ("none" when idle)
\* input:  its parameters
\* lookup: what the Store answers for the requested plan id
\* calls:  the collaborator calls the execution made, in order
\* genReq: the request handed to the AI backend (null if none)
\* saved:  the plan handed to the Store for saving (null if none)
\* result: how the operation ended
VARIABLES op, input, lookup, calls, genReq, saved, result

vars == <<op, input, lookup, calls, genReq, saved, result>>

Init ==
  /\ op = "none"
  /\ input = null
  /\ lookup = null
  /\ calls = <<>>
  /\ genReq = null
  /\ saved = null
  /\ result = null

\* A handler runs to completion on an incoming request.
Serve(name, in, lk, exec) ==
  /\ op' = name
  /\ input' = in
  /\ lookup' = lk
  /\ calls' = exec.calls
  /\ genReq' = exec.genReq
  /\ saved' = exec.saved
  /\ result' = exec.result

AdjustCalories ==
  /\ op = "none"
  /\ \E id \in PlanIds, calories \in CaloriesParams :
       \E lk \in DietLookups, save \in SaveOutcomes :
         /\ Finds(lk, id)
         /\ Serve("adjustCalories", [id |-> id, calories |-> calories], lk,
                  DietController_adjustCalories(id, calories, lk, save))

GenerateDiet ==
  /\ op = "none"
  /\ \E dto \in GenerateDietDtos, config \in Configs :
       \E ai \in DietBackendOutcomes, save \in SaveOutcomes :
         Serve("generateDiet", [dto |-> dto], null,
               generateDiet(dto, config, ai, save))

GetDiet ==
  /\ op = "none"
  /\ \E id \in PlanIds : \E lk \in DietLookups :
       /\ Finds(lk, id)
       /\ Serve("getDiet", [id |-> id], lk, getDiet(id, lk))

RegenerateDiet ==
  /\ op = "none"
  /\ \E id \in PlanIds, modifications \in DietModifications,
        config \in Configs :
       \E lk \in DietLookups, ai \in DietBackendOutcomes,
          save \in SaveOutcomes :
         /\ Finds(lk, id)
         /\ Serve("regenerateDiet",
                  [id |-> id, modifications |-> modifications], lk,
                  regenerateDiet(id, modifications, lk, config, ai, save))

GenerateWorkout ==
  /\ op = "none"
  /\ \E dto \in GenerateWorkoutDtos, config \in Configs :
       \E ai \in WorkoutBackendOutcomes, save \in SaveOutcomes :
         Serve("generateWorkout", [dto |-> dto], null,
               generateWorkout(dto, config, ai, save))

GetWorkout ==
  /\ op = "none"
  /\ \E id \in WorkoutIds : \E lk \in WorkoutLookups :
       /\ Finds(lk, id)
       /\ Serve("getWorkout", [id |-> id], lk, getWorkout(id, lk))

RegenerateWorkout ==
  /\ op = "none"
  /\ \E id \in WorkoutIds, modifications \in WorkoutModifications,
        config \in Configs :
       \E lk \in WorkoutLookups, ai \in WorkoutBackendOutcomes,
          save \in SaveOutcomes :
         /\ Finds(lk, id)
         /\ Serve("regenerateWorkout",
                  [id |-> id, modifications |-> modifications], lk,
                  regenerateWorkout(id, modifications, lk, config, ai, save))

\* The response goes out and the service waits for the next request.
Respond ==
  /\ op # "none"
  /\ op' = "none"
  /\ input' = null
  /\ lookup' = null
  /\ calls' = <<>>
  /\ genReq' = null
  /\ saved' = null
  /\ result' = null

Next ==
  \/ AdjustCalories
  \/ GenerateDiet
  \/ GetDiet
  \/ RegenerateDiet
  \/ GenerateWorkout
  \/ GetWorkout
  \/ RegenerateWorkout
  \/ Respond

Spec == Init /\ [][Next]_vars

(***************************************************************************)
(* Properties                                                              *)
(***************************************************************************)
\* The rescaling request: the stored plan, the parsed target, and whether
\* the service was entered and whether it reported success.
Adjusting == op = "adjustCalories" /\ calls # <<>> /\ lookup.kind = "hit"
Target == parseInt(input.calories)
Succeeded == result.kind = "return" /\ result.value.success
Failed == result.kind = "return" /\ ~result.value.success

\* round(n / d) with halves rounded up, in exact integer arithmetic.
RoundHalfUp(n, d) == (2 * n + d) \div (2 * d)

ExactScaled(x, plan) ==
  Num(RoundHalfUp(x.v * Target.v, plan.totalCalories.v))

\* C1: a successful adjustCalories on a plan with totalCalories > 0 hands
\* the Store a plan whose totalCalories is the target and whose meals, in
\* number and order, carry round(meal.totalCalories * T / P.totalCalories)
\* exactly, halves rounded up.
C1_MealCaloriesExact ==
  (Adjusting /\ Succeeded /\ lookup.plan.totalCalories.v > 0) =>
    /\ saved.totalCalories = Target
    /\ Len(saved.meals) = Len(lookup.plan.meals)
    /\ \A i \in 1..Len(saved.meals) :
         /\ saved.meals[i].name = lookup.plan.meals[i].name
         /\ saved.meals[i].totalCalories =
              ExactScaled(lookup.plan.meals[i].totalCalories, lookup.plan)

\* C2: adjustCalories on a stored plan whose totalCalories is 0 returns a
\* failure and hands no plan to the Store.
C2_ZeroTotalRejected ==
  (Adjusting /\ lookup.plan.totalCalories = Num(0)) =>
    Failed /\ saved = null

\* An integer numeral: optional leading blanks, an optional sign, digits,
\* and nothing else.
IsIntegerNumeral(string) ==
  LET trimmed == StripLeadingWhiteSpace(string)
      body == IF trimmed # <<>> /\ Head(trimmed) \in {"+", "-"}
              THEN Tail(trimmed) ELSE trimmed
  IN  body # <<>> /\ \A i \in 1..Len(body) : IsDigit(body[i])

ValidTarget(string) ==
  /\ IsIntegerNumeral(string)
  /\ parseInt(string).v >= MinCalories
  /\ parseInt(string).v <= MaxCalories

\* C3: a calories parameter that is not an integer in [1000, 5000] gets a
\* failure envelope, and neither the service nor the Store is called.
C3_InvalidTargetRejected ==
  (op = "adjustCalories" /\ ~ValidTarget(input.calories)) =>
    Failed /\ calls = <<>> /\ saved = null

\* The value the merge must hand on for a mapped field pair.
Merged(modification, existingValue) ==
  IF modification # undefined THEN modification ELSE existingValue

\* C4: in regenerateDiet and regenerateWorkout the generator's request
\* carries, for every mapped field pair, the modifications value whenever
\* it is present and the existing plan's value only when it is absent.
C4_PresentModificationWins ==
  /\ (op = "regenerateDiet" /\ genReq # null) =>
       /\ genReq.calories =
            Merged(input.modifications.calories, lookup.plan.totalCalories)
       /\ genReq.goal = Merged(input.modifications.goal, lookup.plan.goal)
       /\ genReq.restrictions =
            Merged(input.modifications.restrictions, lookup.plan.restrictions)
  /\ (op = "regenerateWorkout" /\ genReq # null) =>
       /\ genReq.goal = Merged(input.modifications.goal, lookup.plan.goal)
       /\ genReq.difficulty =
            Merged(input.modifications.difficulty, lookup.plan.difficulty)
       /\ genReq.daysPerWeek =
            Merged(input.modifications.daysPerWeek, lookup.plan.daysPerWeek)
       /\ genReq.duration =
            Merged(input.modifications.duration,
                   lookup.plan.estimatedDuration)

\* An optional quantity is kept present or absent, and scaled if present.
OptionalScaled(after, before, plan) ==
  IF before = undefined THEN after = undefined
  ELSE after = ExactScaled(before, plan)

\* C5: in the plan adjustCalories produces, every optional quantity (an
\* item's protein, carbs, fat; a meal's fiber) is present exactly when it
\* was present in the stored plan, and a present one, 0 included, is
\* round(value * newCalories / totalCalories).
C5_OptionalPresencePreserved ==
  (Adjusting /\ saved # null /\ lookup.plan.totalCalories.v > 0) =>
    \A i \in 1..Len(lookup.plan.meals) :
      LET before == lookup.plan.meals[i]
          after == saved.meals[i]
      IN  /\ OptionalScaled(after.macros.fiber, before.macros.fiber,
                            lookup.plan)
          /\ \A j \in 1..Len(before.items) :
               /\ OptionalScaled(after.items[j].protein,
                                 before.items[j].protein, lookup.plan)
               /\ OptionalScaled(after.items[j].carbs,
                                 before.items[j].carbs, lookup.plan)
               /\ OptionalScaled(after.items[j].fat,
                                 before.items[j].fat, lookup.plan)

\* C6: the request regenerateDiet / regenerateWorkout hands to the
\* generator, and the plan handed to the Store, carry the existing plan's
\* userId, whatever the modifications say.
C6_OwnerKept ==
  (op \in {"regenerateDiet", "regenerateWorkout"} /\ genReq # null) =>
    /\ genReq.userId = lookup.plan.userId
    /\ saved # null => saved.userId = lookup.plan.userId

\* A regeneration whose body names another owner reached the Store.
C6_Witness ==
  /\ op = "regenerateDiet"
  /\ saved # null
  /\ input.modifications.userId = Str("u2")
  /\ lookup.plan.userId = Str("u1")

\* C7: rescaling the plan adjustCalories produced to the same target again
\* gives that plan back.
C7_RescaleIdempotent ==
  (Adjusting /\ Succeeded /\ lookup.plan.totalCalories.v > 0) =>
    AdjustedPlan(saved, Target) = saved

\* C8: when the lookup misses, regenerateDiet and regenerateWorkout return
\* the not-found failure having called nothing but the lookup: no AI
\* backend, no Store write.
C8_MissStopsRegeneration ==
  (op \in {"regenerateDiet", "regenerateWorkout"} /\ lookup = Miss) =>
    /\ Failed
    /\ result.value.error \in
         {Str("Diet plan not found"), Str("Workout plan not found")}
    /\ calls \in {<<"getDietPlan">>, <<"getWorkoutPlan">>}
    /\ genReq = null
    /\ saved = null

\* A regeneration with real modifications met a lookup miss.
C8_Witness ==
  /\ op = "regenerateWorkout"
  /\ lookup = Miss
  /\ input.modifications.goal = Str("cut")
  /\ Failed

\* C9: every public operation ends by returning an envelope: success with
\* data, or failure with an error; nothing is thrown out of it.
C9_AlwaysEnvelope ==
  op # "none" =>
    /\ result.kind = "return"
    /\ result.value.success \in BOOLEAN
    /\ result.value.success =>
         result.value.data # undefined /\ result.value.error = undefined
    /\ ~result.value.success =>
         result.value.error # undefined /\ result.value.data = undefined

\* A Store failure during the save of a regenerated plan came back as a
\* failure envelope.
C9_Witness ==
  /\ op = "regenerateDiet"
  /\ calls[Len(calls)] = "saveDietPlan"
  /\ Failed
  /\ result.value.error = StoreError

RECURSIVE SumMacro(_, _)
\* The sum of one macro over the meals, an absent value counting as 0.
SumMacro(meals, field) ==
  IF meals = <<>> THEN Num(0)
  ELSE LET n == Len(meals)
           value == meals[n].macros[field]
       IN  JsAdd(SumMacro(SubSeq(meals, 1, n - 1), field),
                 IF value = undefined THEN Num(0) ELSE value)

\* C10: the plan adjustCalories produces has targetMacros equal to the sum
\* of its own, already scaled, meals' macros.
C10_AggregateOfScaledMeals ==
  (Adjusting /\ saved # null) =>
    saved.targetMacros =
      [protein |-> SumMacro(saved.meals, "protein"),
       carbs |-> SumMacro(saved.meals, "carbs"),
       fat |-> SumMacro(saved.meals, "fat"),
       fiber |-> SumMacro(saved.meals, "fiber")]

\* A rescaled plan whose aggregate differs from the scaled stored aggregate.
C10_Witness ==
  /\ Adjusting
  /\ saved # null
  /\ lookup.plan.totalCalories.v > 0
  /\ saved.targetMacros #
       AdjustedPlanScalingAggregate(lookup.plan, Target).targetMacros
====
